---- MODULE Spec2Model ----
(***************************************************************************)
(* A model of grain (src/src/main.rs): a terminal viewer that re-reads a   *)
(* file or a command's output at a fixed interval and shows it in a        *)
(* scrollable viewport.                                                    *)
(*                                                                         *)
(* A line is a sequence of one-character strings; the escape character     *)
(* 0x1b is the string ESC.  Durations and instants are in milliseconds.    *)
(***************************************************************************)
EXTENDS Integers, Sequences, FiniteSets, TLC

VARIABLES
    pc,              \* position of main: loop, read, draw, timeout, poll, exited, done, failed, panicked
    config,          \* AppConfig: [interval, source]
    scroll_y,        \* DisplayState.scroll_y (u16)
    scroll_x,        \* DisplayState.scroll_x (u16)
    content,         \* DisplayState.content
    last_update,     \* DisplayState.last_update
    now,             \* the monotonic clock read by Instant::now()
    term,            \* the terminal's size as terminal.size() / frame.size() report it
    poll_timeout,    \* the local poll_timeout of App::run
    op,              \* the step taken last
    key,             \* the key event handled last
    ret,             \* what handle_key_event or should_update returned last
    frame,           \* what render_ui drew last
    updates,         \* how many times should_update has returned true
    outcome,         \* what the content source did on the read made last
    tty,             \* the terminal's mode: raw, restored, left_by_hook
    line,            \* text metrics alone: the line given
    column,          \* text metrics alone: the column given
    cropped,         \* text metrics alone: the result of crop_line_for_scroll
    dims,            \* key handling alone: the dimensions of the content
    handled,         \* key handling alone: how many key events have been handled
    returned,        \* content source alone: what read_content returned
    child,           \* content source alone: the spawned process
    start_time       \* content source alone: start_time of the wait loop

vars == <<pc, config, scroll_y, scroll_x, content, last_update,
          now, term, poll_timeout, op, key, ret, frame, updates, outcome, tty,
          line, column, cropped, dims, handled, returned, child, start_time>>

appVars == <<pc, config, scroll_y, scroll_x, content, last_update,
             now, term, poll_timeout, op, key, ret, frame, updates, outcome, tty>>

unitVars == <<line, column, cropped, dims, handled, returned, child, start_time>>

-----------------------------------------------------------------------------
(* Bounds of the model *)

MaxTime == 350          \* the clock stops advancing here
MaxLineLen == 4         \* text metrics alone: the longest line given
MaxColumn == 5          \* text metrics alone: the largest column given

-----------------------------------------------------------------------------
(* Integers *)

U16 == 65536

Min(a, b) == IF a < b THEN a ELSE b
Max(a, b) == IF a > b THEN a ELSE b

\* usize::saturating_sub, u16::saturating_sub, Duration::saturating_sub
saturating_sub(a, b) == IF a > b THEN a - b ELSE 0

\* `x as u16`
as_u16(x) == x % U16

SetMax(S) == CHOOSE x \in S : \A y \in S : y <= x

-----------------------------------------------------------------------------
(* Text metrics *)

ESC == "ESC"

RECURSIVE visual_width_from(_, _, _, _)
visual_width_from(l, i, in_escape, width) ==
    IF i > Len(l) THEN width
    ELSE IF l[i] = ESC THEN visual_width_from(l, i + 1, TRUE, width)
    ELSE IF in_escape THEN visual_width_from(l, i + 1, l[i] # "m", width)
    ELSE visual_width_from(l, i + 1, FALSE, width + 1)

visual_width(l) == visual_width_from(l, 1, FALSE, 0)

\* The loop of crop_line_for_scroll; st is [result, in_escape, escape_buffer, visual_pos].
RECURSIVE crop_scan(_, _, _, _)
crop_scan(l, i, scroll_x_usize, st) ==
    IF i > Len(l) THEN st
    ELSE LET c == l[i] IN
      IF st.in_escape THEN
        IF c = "m"
        THEN crop_scan(l, i + 1, scroll_x_usize,
                 [st EXCEPT !.in_escape = FALSE,
                            !.result = st.result \o Append(st.escape_buffer, c),
                            !.escape_buffer = <<>>])
        ELSE crop_scan(l, i + 1, scroll_x_usize,
                 [st EXCEPT !.escape_buffer = Append(st.escape_buffer, c)])
      ELSE IF c = ESC THEN
        crop_scan(l, i + 1, scroll_x_usize,
                 [st EXCEPT !.in_escape = TRUE,
                            !.escape_buffer = Append(st.escape_buffer, c)])
      ELSE
        crop_scan(l, i + 1, scroll_x_usize,
                 [st EXCEPT !.result = IF st.visual_pos >= scroll_x_usize
                                       THEN Append(st.result, c) ELSE st.result,
                            !.visual_pos = st.visual_pos + 1])

\* crop_line_for_scroll without the single space for an empty result
crop_line_no_fallback(l, sx) ==
    IF sx = 0 THEN l
    ELSE LET st == crop_scan(l, 1, sx,
                       [result |-> <<>>, in_escape |-> FALSE,
                        escape_buffer |-> <<>>, visual_pos |-> 0])
         IN IF st.in_escape THEN st.result \o st.escape_buffer ELSE st.result

\* crop_line_for_scroll without the flush of an escape run left open
crop_line_no_flush(l, sx) ==
    IF sx = 0 THEN l
    ELSE LET st == crop_scan(l, 1, sx,
                       [result |-> <<>>, in_escape |-> FALSE,
                        escape_buffer |-> <<>>, visual_pos |-> 0])
         IN IF st.result = <<>> /\ l # <<>> THEN <<" ">> ELSE st.result

\* The loop of crop_line_for_scroll with an escape run copied only when it ends
\* at or after the crop point
RECURSIVE crop_scan_visible_runs(_, _, _, _)
crop_scan_visible_runs(l, i, scroll_x_usize, st) ==
    IF i > Len(l) THEN st
    ELSE LET c == l[i] IN
      IF st.in_escape THEN
        IF c = "m"
        THEN crop_scan_visible_runs(l, i + 1, scroll_x_usize,
                 [st EXCEPT !.in_escape = FALSE,
                            !.result = IF st.visual_pos >= scroll_x_usize
                                       THEN st.result \o Append(st.escape_buffer, c)
                                       ELSE st.result,
                            !.escape_buffer = <<>>])
        ELSE crop_scan_visible_runs(l, i + 1, scroll_x_usize,
                 [st EXCEPT !.escape_buffer = Append(st.escape_buffer, c)])
      ELSE IF c = ESC THEN
        crop_scan_visible_runs(l, i + 1, scroll_x_usize,
                 [st EXCEPT !.in_escape = TRUE,
                            !.escape_buffer = Append(st.escape_buffer, c)])
      ELSE
        crop_scan_visible_runs(l, i + 1, scroll_x_usize,
                 [st EXCEPT !.result = IF st.visual_pos >= scroll_x_usize
                                       THEN Append(st.result, c) ELSE st.result,
                            !.visual_pos = st.visual_pos + 1])

\* crop_line_for_scroll dropping the escape runs that end before the crop point
crop_line_visible_runs(l, sx) ==
    IF sx = 0 THEN l
    ELSE LET st == crop_scan_visible_runs(l, 1, sx,
                       [result |-> <<>>, in_escape |-> FALSE,
                        escape_buffer |-> <<>>, visual_pos |-> 0])
             result == IF st.in_escape THEN st.result \o st.escape_buffer
                       ELSE st.result
         IN IF result = <<>> /\ l # <<>> THEN <<" ">> ELSE result

crop_line_for_scroll(l, sx) ==
    IF sx = 0 THEN l
    ELSE LET st == crop_scan(l, 1, sx,
                       [result |-> <<>>, in_escape |-> FALSE,
                        escape_buffer |-> <<>>, visual_pos |-> 0])
             result == IF st.in_escape THEN st.result \o st.escape_buffer
                       ELSE st.result
         IN IF result = <<>> /\ l # <<>> THEN <<" ">> ELSE result

-----------------------------------------------------------------------------
(* The content source *)

\* line.trim().is_empty()
is_blank(l) == \A i \in 1..Len(l) : l[i] = " "

non_blank(raw) == SelectSeq(raw, LAMBDA l : ~is_blank(l))

\* format!("\x1b[31m{}\x1b[0m", line)
red(l) == <<ESC, "[", "3", "1", "m">> \o l \o <<ESC, "[", "0", "m">>

red_all(raw) == [i \in 1..Len(raw) |-> red(raw[i])]

\* The fixed texts of the source, as lines of the same length (their characters
\* are stand-ins; none is an escape and not all are blank). The error or path
\* text that format! inserts is the one character "e".
NoOutputLine == <<"n", "o", "o", "u", "t">>
WaitFailLine == <<"n", "o", "w", "a", "i", "t", ":", " ", "e">>
ReadFailLine == <<"f", "a", "i", "l", ":", " ", "e">>
FileEmptyLine == <<"f", "i", " ", "e", " ", "n", "o">>
ProcEmptyLine == <<"/", "p", "r", "o", "c", "/", "i", "n", "t", "e", "r", "r", "u",
                   "p", "t", "s", " ", "n", "o">>

Ok(lines) == [ok |-> TRUE, lines |-> lines]
Err == [ok |-> FALSE, lines |-> <<>>]

\* read_content returning no line at all when try_wait fails
read_content_wait_empty(cfg, src) ==
    IF cfg.source = "command" THEN
        IF src.kind = "spawn_err" THEN Err
        ELSE IF src.kind = "wait_err" THEN Ok(<<>>)
        ELSE IF src.kind = "output_err" THEN Err
        ELSE LET lines == non_blank(src.stdout) \o red_all(non_blank(src.stderr))
             IN Ok(IF lines = <<>> THEN <<NoOutputLine>> ELSE lines)
    ELSE
        IF src.kind = "open_err" THEN Err
        ELSE LET lines == non_blank(src.raw)
             IN Ok(IF lines # <<>> THEN lines
                   ELSE IF cfg.source = "file" THEN <<FileEmptyLine>>
                   ELSE <<ProcEmptyLine>>)

\* read_content with the standard-error lines put before the standard-output lines
read_content_stderr_first(cfg, src) ==
    IF cfg.source = "command" THEN
        IF src.kind = "spawn_err" THEN Err
        ELSE IF src.kind = "wait_err" THEN Ok(<<WaitFailLine>>)
        ELSE IF src.kind = "output_err" THEN Err
        ELSE LET lines == red_all(non_blank(src.stderr)) \o non_blank(src.stdout)
             IN Ok(IF lines = <<>> THEN <<NoOutputLine>> ELSE lines)
    ELSE
        IF src.kind = "open_err" THEN Err
        ELSE LET lines == non_blank(src.raw)
             IN Ok(IF lines # <<>> THEN lines
                   ELSE IF cfg.source = "file" THEN <<FileEmptyLine>>
                   ELSE <<ProcEmptyLine>>)

\* src is what the outside world does on this read: for a command, whether the
\* spawn, the wait and the collection of the output succeed and what the child
\* wrote; for a file, whether it opens and what it holds.
read_content(cfg, src) ==
    IF cfg.source = "command" THEN
        IF src.kind = "spawn_err" THEN Err
        ELSE IF src.kind = "wait_err" THEN Ok(<<WaitFailLine>>)
        ELSE IF src.kind = "output_err" THEN Err
        ELSE LET lines == non_blank(src.stdout) \o red_all(non_blank(src.stderr))
             IN Ok(IF lines = <<>> THEN <<NoOutputLine>> ELSE lines)
    ELSE
        IF src.kind = "open_err" THEN Err
        ELSE LET lines == non_blank(src.raw)
             IN Ok(IF lines # <<>> THEN lines
                   ELSE IF cfg.source = "file" THEN <<FileEmptyLine>>
                   ELSE <<ProcEmptyLine>>)

-----------------------------------------------------------------------------
(* DisplayState *)

\* What the scroll bounds read of a content: how many lines it has and which
\* visual widths its lines have.
Dims(c) == [len |-> Len(c), widths |-> {visual_width(c[i]) : i \in 1..Len(c)}]

\* self.content.len().saturating_sub(height as usize) as u16
max_scroll_y_of(len, height) == as_u16(saturating_sub(len, height))

\* content.iter().map(|line| visual_width(line) as u16).max().unwrap_or(0)
\*     .saturating_sub(width).max(0)
max_scroll_x_of(widths, width) ==
    LET cast == {as_u16(w) : w \in widths}
        widest == IF cast = {} THEN 0 ELSE SetMax(cast)
    IN Max(saturating_sub(widest, width), 0)

max_scroll_y(c, height) == max_scroll_y_of(Dims(c).len, height)
max_scroll_x(c, width) == max_scroll_x_of(Dims(c).widths, width)

\* The clamping of update_content, on a new content of dimensions d
clamp_offsets(st, d, width, height) ==
    [scroll_y |-> Min(st.scroll_y, max_scroll_y_of(d.len, height)),
     scroll_x |-> Min(st.scroll_x, max_scroll_x_of(d.widths, width))]

\* update_content without the comparison with the stored content
update_content_always(st, new_content, width, height) ==
    [scroll_y |-> Min(st.scroll_y, max_scroll_y(new_content, height)),
     scroll_x |-> Min(st.scroll_x, max_scroll_x(new_content, width)),
     content |-> new_content]

\* st is [scroll_y, scroll_x, content]
update_content(st, new_content, width, height) ==
    IF new_content # st.content
    THEN LET clamped == clamp_offsets(st, Dims(new_content), width, height)
         IN [scroll_y |-> clamped.scroll_y,
             scroll_x |-> clamped.scroll_x,
             content |-> new_content]
    ELSE st

PlaceholderLine == <<"n", "o", "t", "h", "i", "n", "g">>

\* get_display_text with the window one row short
get_display_text_short(st, width, height) ==
    LET start_y == st.scroll_y
        end_y == Min(start_y + height - 1, Len(st.content))
    IN IF start_y >= end_y THEN <<PlaceholderLine>>
       ELSE [i \in 1..(end_y - start_y) |->
                crop_line_for_scroll(st.content[start_y + i], st.scroll_x)]

get_display_text(st, width, height) ==
    LET start_y == st.scroll_y
        end_y == Min(start_y + height, Len(st.content))
    IN IF start_y >= end_y THEN <<PlaceholderLine>>
       ELSE [i \in 1..(end_y - start_y) |->
                crop_line_for_scroll(st.content[start_y + i], st.scroll_x)]

NavCodes == {"Up", "Down", "PageUp", "PageDown", "Left", "Right", "Home", "End"}

\* What a u16 addition does: a build with overflow checks (the debug profile)
\* panics when the sum does not fit, a build without them (the release profile)
\* wraps it.
add_u16(a, b, checks) ==
    IF a + b >= U16
    THEN [panic |-> checks, value |-> (a + b) % U16]
    ELSE [panic |-> FALSE, value |-> a + b]

\* The match of handle_key_event. st is [scroll_y, scroll_x, ..]; the result is
\* the new offsets, ret (the value returned) and panic (the handler did not
\* return).
key_arms(st, max_y, max_x, key_event, height, checks) ==
    LET same == [scroll_y |-> st.scroll_y, scroll_x |-> st.scroll_x,
                 ret |-> FALSE, panic |-> FALSE]
        code == key_event.code
    IN IF code = "Up" THEN
           [same EXCEPT !.scroll_y = saturating_sub(st.scroll_y, 1), !.ret = TRUE]
       ELSE IF code = "Down" THEN
           LET sum == add_u16(st.scroll_y, 1, checks)
           IN IF sum.panic THEN [same EXCEPT !.panic = TRUE]
              ELSE [same EXCEPT !.scroll_y = Min(sum.value, max_y), !.ret = TRUE]
       ELSE IF code = "PageUp" THEN
           [same EXCEPT !.scroll_y = saturating_sub(st.scroll_y, height), !.ret = TRUE]
       ELSE IF code = "PageDown" THEN
           LET sum == add_u16(st.scroll_y, height, checks)
           IN IF sum.panic THEN [same EXCEPT !.panic = TRUE]
              ELSE [same EXCEPT !.scroll_y = Min(sum.value, max_y), !.ret = TRUE]
       ELSE IF code = "Left" THEN
           [same EXCEPT !.scroll_x = saturating_sub(st.scroll_x, 1), !.ret = TRUE]
       ELSE IF code = "Right" THEN
           LET sum == add_u16(st.scroll_x, 1, checks)
           IN IF sum.panic THEN [same EXCEPT !.panic = TRUE]
              ELSE [same EXCEPT !.scroll_x = Min(sum.value, max_x), !.ret = TRUE]
       ELSE IF code = "Home" /\ key_event.ctrl THEN
           [same EXCEPT !.scroll_y = 0, !.ret = TRUE]
       ELSE IF code = "End" /\ key_event.ctrl THEN
           [same EXCEPT !.scroll_y = max_y, !.ret = TRUE]
       ELSE IF code = "Home" THEN
           [same EXCEPT !.scroll_x = 0, !.ret = TRUE]
       ELSE IF code = "End" THEN
           [same EXCEPT !.scroll_x = max_x, !.ret = TRUE]
       ELSE same

\* navigate without the check of the event's kind
navigate_any_kind(st, d, key_event, width, height, checks) ==
    key_arms(st, max_scroll_y_of(d.len, height), max_scroll_x_of(d.widths, width),
             key_event, height, checks)

\* handle_key_event on a content of dimensions d
navigate(st, d, key_event, width, height, checks) ==
    IF key_event.kind # "Press"
    THEN [scroll_y |-> st.scroll_y, scroll_x |-> st.scroll_x,
          ret |-> FALSE, panic |-> FALSE]
    ELSE key_arms(st, max_scroll_y_of(d.len, height), max_scroll_x_of(d.widths, width),
                  key_event, height, checks)

\* handle_key_event with Ctrl+Home going to the first column as well
handle_key_event_ctrl_home_both(st, key_event, width, height, checks) ==
    LET r == navigate(st, Dims(st.content), key_event, width, height, checks)
    IN IF key_event.kind = "Press" /\ key_event.code = "Home" /\ key_event.ctrl
       THEN [r EXCEPT !.scroll_x = 0]
       ELSE r

\* st is [scroll_y, scroll_x, content]
handle_key_event(st, key_event, width, height, checks) ==
    navigate(st, Dims(st.content), key_event, width, height, checks)

\* now.duration_since(self.last_update): zero when last_update is later than now
duration_since(t, earlier) == saturating_sub(t, earlier)

\* should_update with the reference instant set to the current time
should_update_now(lu, interval, t) ==
    IF duration_since(t, lu) >= interval
    THEN [due |-> TRUE, last_update |-> t]
    ELSE [due |-> FALSE, last_update |-> lu]

\* should_update firing from half an interval on
should_update_early(lu, interval, t) ==
    IF duration_since(t, lu) >= interval \div 2
    THEN [due |-> TRUE, last_update |-> lu + interval]
    ELSE [due |-> FALSE, last_update |-> lu]

\* Returns [due, last_update].
should_update(lu, interval, t) ==
    IF duration_since(t, lu) >= interval
    THEN [due |-> TRUE, last_update |-> lu + interval]
    ELSE [due |-> FALSE, last_update |-> lu]

-----------------------------------------------------------------------------
(* Rendering and the main loop's window *)

STATUS_HEIGHT == 1
SEPARATOR_HEIGHT == 1
MIN_HEIGHT == STATUS_HEIGHT + SEPARATOR_HEIGHT + 1

\* What render_ui draws on a terminal of size full: the rows of the status line
\* and the separator (when drawn), the content area, and the text put into it.
render_ui(full, st) ==
    LET content_y == IF full.height >= MIN_HEIGHT THEN STATUS_HEIGHT + SEPARATOR_HEIGHT
                     ELSE IF full.height >= STATUS_HEIGHT + 1 THEN STATUS_HEIGHT
                     ELSE 0
        content_height == IF full.height >= MIN_HEIGHT
                          THEN full.height - STATUS_HEIGHT - SEPARATOR_HEIGHT
                          ELSE IF full.height >= STATUS_HEIGHT + 1
                          THEN full.height - STATUS_HEIGHT
                          ELSE 1
    IN [status |-> full.height >= STATUS_HEIGHT,
        separator |-> full.height >= MIN_HEIGHT,
        content_y |-> content_y,
        width |-> full.width,
        height |-> content_height,
        text |-> get_display_text(st, full.width, content_height)]

\* content_height of App::run without the row of the separator
run_content_height_status_only(size) ==
    IF size.height >= 2 THEN size.height - 1 ELSE 1

\* content_height as App::run computes it from terminal.size()
run_content_height(size) ==
    IF size.height >= 3 THEN size.height - 2
    ELSE IF size.height >= 2 THEN size.height - 1
    ELSE 1

\* min(100ms) and unwrap_or(100ms) of App::run
POLL_CAP == 100

\* self.config.interval.checked_sub(now - last_update)
\*     .unwrap_or(Duration::from_millis(100)).min(Duration::from_millis(100))
compute_poll_timeout(interval, t, lu) ==
    LET elapsed == duration_since(t, lu)
        left == IF interval >= elapsed THEN interval - elapsed ELSE POLL_CAP
    IN Min(left, POLL_CAP)

-----------------------------------------------------------------------------
(* The environment of the main loop *)

La == <<"a">>
Lbb == <<"b", "b">>
Lccc == <<"c", "c", "c">>
Lblank == <<" ">>

\* What a file source may hold on a read.
FileRaws == {<<La, Lbb, Lccc>>, <<La, Lblank, Lbb>>, <<Lblank>>}

\* What a command may write to its standard output and standard error.
CommandStdouts == {<<>>, <<La, Lbb, Lccc>>}
CommandStderrs == {<<>>, <<Lbb>>}

Outcomes(cfg) ==
    IF cfg.source = "command"
    THEN {[kind |-> "spawn_err"], [kind |-> "wait_err"], [kind |-> "output_err"]}
         \cup {[kind |-> "output", stdout |-> o, stderr |-> e] :
                   o \in CommandStdouts, e \in CommandStderrs}
    ELSE {[kind |-> "open_err"]} \cup {[kind |-> "file", raw |-> r] : r \in FileRaws}

Sources == {"command", "file"}
Intervals == {150}
Configs == [interval : Intervals, source : Sources]

TermSizes == {[width |-> 2, height |-> 4], [width |-> 2, height |-> 3],
              [width |-> 4, height |-> 2], [width |-> 4, height |-> 1],
              [width |-> 4, height |-> 5]}

\* How long a step may take.
Delays == {0, 50, 200}

KeyCodes == NavCodes \cup {"q", "c", "x"}
KeyEvents == [code : KeyCodes, ctrl : BOOLEAN, kind : {"Press", "Release"}]
NoKey == [code |-> "none", ctrl |-> FALSE, kind |-> "none"]
NoSrc == [kind |-> "none"]
NoResult == [ok |-> FALSE, lines |-> <<>>]
NoFrame == [status |-> FALSE, separator |-> FALSE, content_y |-> 0,
            width |-> 0, height |-> 0, text |-> <<>>]

state == [scroll_y |-> scroll_y, scroll_x |-> scroll_x, content |-> content]

-----------------------------------------------------------------------------
(* The main loop: App::new, then App::run *)

NoDims == [len |-> 0, widths |-> {}]

UnitIdle ==
    /\ line = <<>> /\ column = 0 /\ cropped = <<>> /\ dims = NoDims /\ handled = 0
    /\ returned = NoResult /\ child = "none" /\ start_time = 0

\* DisplayState::new and App::new: zero offsets, the reference instant taken
\* before the first read, the content read once without clamping.
Init ==
    /\ pc = "loop"
    /\ config \in Configs
    /\ scroll_y = 0
    /\ scroll_x = 0
    /\ \E src \in Outcomes(config) :
          LET r == read_content(config, src)
          IN content = IF r.ok THEN r.lines ELSE <<ReadFailLine>>
    /\ last_update = 0
    /\ now \in Delays
    /\ term \in TermSizes
    /\ poll_timeout = 0
    /\ op = "new"
    /\ key = NoKey
    /\ ret = FALSE
    /\ frame = NoFrame
    /\ updates = 0
    /\ outcome = NoSrc
    /\ tty = "raw"
    /\ UnitIdle

\* run, line 580: self.state.should_update(self.config.interval)
ShouldUpdate ==
    /\ pc = "loop"
    /\ LET r == should_update(last_update, config.interval, now)
       IN /\ last_update' = r.last_update
          /\ ret' = r.due
          /\ updates' = IF r.due THEN updates + 1 ELSE updates
          /\ pc' = IF r.due THEN "read" ELSE "draw"
    /\ op' = "should_update"
    /\ key' = NoKey
    /\ frame' = NoFrame
    /\ UNCHANGED <<config, scroll_y, scroll_x, content, now, term,
                   poll_timeout>>
    /\ outcome' = NoSrc
    /\ UNCHANGED tty
    /\ UNCHANGED unitVars

\* run, lines 581-597: the read, which takes d, then update_content with the
\* window derived from terminal.size(), or the fallback line on an error.
Refresh ==
    /\ pc = "read"
    /\ \E src \in Outcomes(config), d \in Delays :
          LET r == read_content(config, src)
              st == update_content(state, r.lines, term.width, run_content_height(term))
          IN /\ now + d <= MaxTime
             /\ outcome' = src
             /\ now' = now + d
             /\ IF r.ok
                THEN /\ scroll_y' = st.scroll_y
                     /\ scroll_x' = st.scroll_x
                     /\ content' = st.content
                     /\ op' = IF r.lines = content THEN "refresh_same" ELSE "refresh_changed"
                ELSE /\ content' = <<ReadFailLine>>
                     /\ op' = "refresh_err"
                     /\ UNCHANGED <<scroll_y, scroll_x>>
    /\ pc' = "draw"
    /\ key' = NoKey
    /\ ret' = FALSE
    /\ frame' = NoFrame
    /\ UNCHANGED <<config, last_update, term, poll_timeout, updates>>
    /\ UNCHANGED tty
    /\ UNCHANGED unitVars

\* run, lines 600-602: terminal.draw(render_ui)
Draw ==
    /\ pc = "draw"
    /\ frame' = render_ui(term, state)
    /\ pc' = "timeout"
    /\ op' = "draw"
    /\ key' = NoKey
    /\ ret' = FALSE
    /\ UNCHANGED <<config, scroll_y, scroll_x, content, last_update,
                   now, term, poll_timeout, updates>>
    /\ outcome' = NoSrc
    /\ UNCHANGED tty
    /\ UNCHANGED unitVars

\* run, lines 604-607
PollTimeout ==
    /\ pc = "timeout"
    /\ poll_timeout' = compute_poll_timeout(config.interval, now, last_update)
    /\ pc' = "poll"
    /\ op' = "timeout"
    /\ key' = NoKey
    /\ ret' = FALSE
    /\ frame' = NoFrame
    /\ UNCHANGED <<config, scroll_y, scroll_x, content, last_update,
                   now, term, updates>>
    /\ outcome' = NoSrc
    /\ UNCHANGED tty
    /\ UNCHANGED unitVars

\* run, line 609: event::poll returns false after poll_timeout
PollNoEvent ==
    /\ pc = "poll"
    /\ now + poll_timeout <= MaxTime
    /\ now' = now + poll_timeout
    /\ pc' = "loop"
    /\ op' = "no_event"
    /\ poll_timeout' = 0
    /\ key' = NoKey
    /\ ret' = FALSE
    /\ frame' = NoFrame
    /\ UNCHANGED <<config, scroll_y, scroll_x, content, last_update,
                   term, updates>>
    /\ outcome' = NoSrc
    /\ UNCHANGED tty
    /\ UNCHANGED unitVars

\* When an event arrives within the timeout.
Arrival(d) == d \in Delays /\ d <= poll_timeout /\ now + d <= MaxTime

\* run, line 610: an event that is not a key event is read and dropped
PollOtherEvent ==
    /\ pc = "poll"
    /\ \E d \in Delays : Arrival(d) /\ now' = now + d
    /\ pc' = "loop"
    /\ op' = "other_event"
    /\ poll_timeout' = 0
    /\ key' = NoKey
    /\ ret' = FALSE
    /\ frame' = NoFrame
    /\ UNCHANGED <<config, scroll_y, scroll_x, content, last_update,
                   term, updates>>
    /\ outcome' = NoSrc
    /\ UNCHANGED tty
    /\ UNCHANGED unitVars

\* The quit test with c taken for Ctrl+C whatever the modifiers
is_quit_any_c(key_event) ==
    key_event.code = "c" \/ key_event.code = "q"

\* is_ctrl_c || key_event.code == KeyCode::Char('q')
is_quit(key_event) ==
    (key_event.ctrl /\ key_event.code = "c") \/ key_event.code = "q"

\* run, lines 610-616: q or Ctrl+C leaves the loop
PollQuit ==
    /\ pc = "poll"
    /\ \E d \in Delays, k \in KeyEvents :
          /\ Arrival(d)
          /\ is_quit(k)
          /\ now' = now + d
          /\ key' = k
    /\ pc' = "exited"
    /\ op' = "quit"
    /\ poll_timeout' = 0
    /\ ret' = FALSE
    /\ frame' = NoFrame
    /\ UNCHANGED <<config, scroll_y, scroll_x, content, last_update,
                   term, updates>>
    /\ outcome' = NoSrc
    /\ UNCHANGED tty
    /\ UNCHANGED unitVars

\* run, lines 618-627: any other key event goes to handle_key_event with the
\* window derived from terminal.size()
PollKey ==
    /\ pc = "poll"
    /\ \E d \in Delays, k \in KeyEvents, checks \in BOOLEAN :
          LET r == handle_key_event(state, k, term.width, run_content_height(term),
                                    checks)
          IN /\ Arrival(d)
             /\ ~is_quit(k)
             /\ now' = now + d
             /\ key' = k
             /\ scroll_y' = r.scroll_y
             /\ scroll_x' = r.scroll_x
             /\ ret' = r.ret
             /\ pc' = IF r.panic THEN "panicked" ELSE "loop"
             /\ op' = IF r.panic THEN "panic" ELSE "key"
             /\ tty' = IF r.panic THEN "left_by_hook" ELSE tty
    /\ poll_timeout' = 0
    /\ frame' = NoFrame
    /\ UNCHANGED <<config, content, last_update, term, updates>>
    /\ outcome' = NoSrc
    /\ UNCHANGED unitVars

\* terminal.size()?, terminal.draw(..)?, event::poll(..)?, event::read()?:
\* an I/O error of the terminal ends run with that error.
TerminalError ==
    /\ pc \in {"read", "draw", "poll"}
    /\ pc' = "failed"
    /\ op' = "io_error"
    /\ key' = NoKey
    /\ ret' = FALSE
    /\ frame' = NoFrame
    /\ UNCHANGED <<config, scroll_y, scroll_x, content, last_update,
                   now, term, poll_timeout, updates>>
    /\ outcome' = NoSrc
    /\ UNCHANGED tty
    /\ UNCHANGED unitVars

\* main, lines 646-649: run has returned Ok, cleanup restores the terminal and
\* main returns Ok.
Cleanup ==
    /\ pc = "exited"
    /\ pc' = "done"
    /\ tty' = "restored"
    /\ op' = "cleanup"
    /\ outcome' = NoSrc
    /\ UNCHANGED <<config, scroll_y, scroll_x, content, last_update, now, term,
                   poll_timeout, key, ret, frame, updates>>
    /\ UNCHANGED unitVars

\* restore_terminal: disable_raw_mode()?, execute!(LeaveAlternateScreen)? or
\* show_cursor() fails, and main returns that error with the terminal as the
\* failed call left it.
CleanupError ==
    /\ pc = "exited"
    /\ pc' = "failed"
    /\ tty' \in {"raw", "partly_restored"}
    /\ op' = "cleanup_error"
    /\ outcome' = NoSrc
    /\ UNCHANGED <<config, scroll_y, scroll_x, content, last_update, now, term,
                   poll_timeout, key, ret, frame, updates>>
    /\ UNCHANGED unitVars

\* The user resizes the terminal; the loop sees the new size the next time it
\* asks for it.
Resize ==
    /\ pc \in {"loop", "read", "draw", "timeout", "poll"}
    /\ \E size \in TermSizes : size # term /\ term' = size
    /\ op' = "resize"
    /\ key' = NoKey
    /\ ret' = FALSE
    /\ frame' = NoFrame
    /\ UNCHANGED <<pc, config, scroll_y, scroll_x, content,
                   last_update, now, poll_timeout, updates>>
    /\ outcome' = NoSrc
    /\ UNCHANGED tty
    /\ UNCHANGED unitVars

Next ==
    \/ ShouldUpdate
    \/ Refresh
    \/ Draw
    \/ PollTimeout
    \/ PollNoEvent
    \/ PollOtherEvent
    \/ PollQuit
    \/ PollKey
    \/ TerminalError
    \/ Cleanup
    \/ CleanupError
    \/ Resize

Spec == Init /\ [][Next]_vars

-----------------------------------------------------------------------------
(* Text metrics alone: crop_line_for_scroll applied to any line and column *)

TextChars == {"a", "b", " ", "m", ESC}

RECURSIVE SeqsUpTo(_, _)
SeqsUpTo(S, n) ==
    IF n = 0 THEN {<<>>}
    ELSE LET shorter == SeqsUpTo(S, n - 1)
         IN shorter \cup {Append(q, x) : q \in {r \in shorter : Len(r) = n - 1}, x \in S}

AppIdle ==
    /\ config = [interval |-> 150, source |-> "file"]
    /\ content = <<>>
    /\ last_update = 0
    /\ now = 0
    /\ poll_timeout = 0
    /\ key = NoKey
    /\ ret = FALSE
    /\ frame = NoFrame
    /\ updates = 0
    /\ outcome = NoSrc
    /\ tty = "raw"

TextInit ==
    /\ pc = "text"
    /\ line \in SeqsUpTo(TextChars, MaxLineLen)
    /\ column \in 0..MaxColumn
    /\ cropped = <<>>
    /\ dims = NoDims
    /\ handled = 0
    /\ returned = NoResult
    /\ child = "none"
    /\ start_time = 0
    /\ op = "new"
    /\ scroll_y = 0
    /\ scroll_x = 0
    /\ term = [width |-> 0, height |-> 0]
    /\ AppIdle

Crop ==
    /\ pc = "text"
    /\ cropped' = crop_line_for_scroll(line, column)
    /\ pc' = "cropped"
    /\ op' = "crop"
    /\ UNCHANGED <<config, scroll_y, scroll_x, content, last_update, now, term,
                   poll_timeout, key, ret, frame, updates, outcome, tty, line, column,
                   dims, handled, returned, child, start_time>>

SpecText == TextInit /\ [][Crop]_vars

-----------------------------------------------------------------------------
(* Key handling alone: handle_key_event applied to contents of any size *)

MaxKeys == 2            \* how many key events are handled in a row

\* Line counts and line widths around the end of the 16-bit range, and small ones.
KeyLens == {1, 3, 65537, 65538, 65539, 70000}
KeyWidths == {{1, 2}, {1, 2, 3}, {3, 65537}, {65538}}
KeySizes == {[width |-> 2, height |-> 4], [width |-> 2, height |-> 5]}

\* Offsets the viewport can be at on such a content: the ends of the range the
\* handler allows, and one step inside it.
Near(m) == {0, 1, m - 1, m} \cap 0..m

KeyDims == {d \in [len : KeyLens, widths : KeyWidths] : Cardinality(d.widths) <= d.len}

KeysInit ==
    /\ pc = "keys"
    /\ dims \in KeyDims
    /\ term \in KeySizes
    /\ scroll_y \in Near(max_scroll_y_of(dims.len, run_content_height(term)))
    /\ scroll_x \in Near(max_scroll_x_of(dims.widths, term.width))
    /\ op = "new"
    /\ handled = 0
    /\ line = <<>>
    /\ column = 0
    /\ cropped = <<>>
    /\ returned = NoResult
    /\ child = "none"
    /\ start_time = 0
    /\ AppIdle

\* handle_key_event, as PollKey calls it
Key ==
    /\ pc = "keys"
    /\ handled < MaxKeys
    /\ \E k \in KeyEvents, checks \in BOOLEAN :
          LET r == navigate(state, dims, k, term.width, run_content_height(term), checks)
          IN /\ key' = k
             /\ scroll_y' = r.scroll_y
             /\ scroll_x' = r.scroll_x
             /\ ret' = r.ret
             /\ pc' = IF r.panic THEN "panicked" ELSE "keys"
             /\ op' = IF r.panic THEN "panic" ELSE "key"
    /\ handled' = handled + 1
    /\ UNCHANGED <<config, content, last_update, now, term, poll_timeout, frame,
                   updates, outcome, tty, line, column, cropped, dims, returned, child,
                   start_time>>

\* update_content, as Refresh calls it, with a content that differs from the
\* stored one and has the dimensions d
Update ==
    /\ pc = "keys"
    /\ handled < MaxKeys
    /\ \E d \in KeyDims :
          LET clamped == clamp_offsets(state, d, term.width, run_content_height(term))
          IN /\ dims' = d
             /\ scroll_y' = clamped.scroll_y
             /\ scroll_x' = clamped.scroll_x
    /\ op' = "update"
    /\ key' = NoKey
    /\ ret' = FALSE
    /\ handled' = handled + 1
    /\ UNCHANGED <<pc, config, content, last_update, now, term, poll_timeout, frame,
                   updates, outcome, tty, line, column, cropped, returned, child,
                   start_time>>

SpecKeys == KeysInit /\ [][Key \/ Update]_vars

-----------------------------------------------------------------------------
(* The content source alone: read_content applied to any source text *)

MaxRawLines == 2        \* the longest source text given

Lempty == <<>>
Lblanks == <<" ", " ">>

RawLines == {La, Lbb, Lblank, Lblanks, Lempty}
RawTexts == SeqsUpTo(RawLines, MaxRawLines)

\* A command, a file, or neither (/proc/interrupts).
ReadConfigs == [interval : Intervals, source : {"command", "file", "default"}]

ReadOutcomes(cfg) ==
    IF cfg.source = "command"
    THEN {[kind |-> "spawn_err"], [kind |-> "wait_err"], [kind |-> "output_err"]}
         \cup {[kind |-> "output", stdout |-> o, stderr |-> e] :
                   o \in RawTexts, e \in RawTexts}
    ELSE {[kind |-> "open_err"]} \cup {[kind |-> "file", raw |-> r] : r \in RawTexts}

ReadInit ==
    /\ pc = "source"
    /\ config \in ReadConfigs
    /\ outcome \in ReadOutcomes(config)
    /\ returned = NoResult
    /\ child = "none"
    /\ start_time = 0
    /\ line = <<>> /\ column = 0 /\ cropped = <<>> /\ dims = NoDims /\ handled = 0
    /\ scroll_y = 0 /\ scroll_x = 0 /\ content = <<>>
    /\ last_update = 0 /\ now = 0 /\ poll_timeout = 0 /\ updates = 0
    /\ term = [width |-> 0, height |-> 0]
    /\ op = "new" /\ key = NoKey /\ ret = FALSE /\ frame = NoFrame
    /\ tty = "raw"

Read ==
    /\ pc = "source"
    /\ returned' = read_content(config, outcome)
    /\ pc' = "returned"
    /\ op' = "read"
    /\ UNCHANGED <<config, scroll_y, scroll_x, content, last_update, now, term,
                   poll_timeout, key, ret, frame, updates, outcome, tty, line,
                   column, cropped, dims, handled, child, start_time>>

SpecRead == ReadInit /\ [][Read]_vars

-----------------------------------------------------------------------------
(* The content source alone: a command-sourced read, step by step *)

READ_TIMEOUT_MIN == 100
READ_TIMEOUT_MAX == 3000
WAIT_SLEEP == 10
KILL_SLEEP == 50

\* The timeout without the cap of 3 s
read_timeout_uncapped(interval) ==
    Max((interval * 8) \div 10, READ_TIMEOUT_MIN)

\* config.interval.mul_f64(0.8).max(100ms).min(3s)
read_timeout(interval) ==
    Min(Max((interval * 8) \div 10, READ_TIMEOUT_MIN), READ_TIMEOUT_MAX)

WaitIntervals == {50, 150, 4000}

\* How much longer than asked a thread::sleep may take.
SleepLags == {0, 990}

WaitInit ==
    /\ pc = "spawn"
    /\ config \in [interval : WaitIntervals, source : {"command"}]
    /\ outcome = NoSrc
    /\ returned = NoResult
    /\ child = "none"
    /\ start_time = 0
    /\ now = 0
    /\ line = <<>> /\ column = 0 /\ cropped = <<>> /\ dims = NoDims /\ handled = 0
    /\ scroll_y = 0 /\ scroll_x = 0 /\ content = <<>>
    /\ last_update = 0 /\ poll_timeout = 0 /\ updates = 0
    /\ term = [width |-> 0, height |-> 0]
    /\ op = "new" /\ key = NoKey /\ ret = FALSE /\ frame = NoFrame
    /\ tty = "raw"

waitFrame == <<config, scroll_y, scroll_x, content, last_update, term, poll_timeout,
               key, ret, frame, updates, tty, line, column, cropped, dims, handled>>

\* read_content, lines 199-209: spawn()? fails, or the child runs and the
\* wait loop starts
Spawn ==
    /\ pc = "spawn"
    /\ \/ /\ outcome' = [kind |-> "spawn_err"]
          /\ returned' = read_content(config, outcome')
          /\ pc' = "returned"
          /\ UNCHANGED <<child, start_time>>
       \/ /\ child' = "running"
          /\ start_time' = now
          /\ pc' = "try_wait"
          /\ UNCHANGED <<outcome, returned>>
    /\ op' = "spawn"
    /\ UNCHANGED now
    /\ UNCHANGED waitFrame

\* The child exits on its own.
ChildExits ==
    /\ pc = "try_wait"
    /\ child = "running"
    /\ child' = "exited"
    /\ op' = "child_exits"
    /\ UNCHANGED <<pc, outcome, returned, start_time, now>>
    /\ UNCHANGED waitFrame

\* read_content, lines 211-229: one iteration of the wait loop
TryWait ==
    /\ pc = "try_wait"
    /\ \/ /\ child = "exited"
          /\ pc' = "collect"
          /\ UNCHANGED <<child, now, outcome, returned>>
       \/ /\ child = "running"
          /\ now - start_time > read_timeout(config.interval)
          /\ child' = "killed"
          /\ \E lag \in SleepLags : now' = now + KILL_SLEEP + lag
          /\ pc' = "collect"
          /\ UNCHANGED <<outcome, returned>>
       \/ /\ child = "running"
          /\ ~(now - start_time > read_timeout(config.interval))
          /\ \E lag \in SleepLags : now' = now + WAIT_SLEEP + lag
          /\ pc' = "try_wait"
          /\ UNCHANGED <<child, outcome, returned>>
       \/ /\ outcome' = [kind |-> "wait_err"]
          /\ returned' = read_content(config, outcome')
          /\ pc' = "returned"
          /\ UNCHANGED <<child, now>>
    /\ op' = "try_wait"
    /\ UNCHANGED start_time
    /\ UNCHANGED waitFrame

\* read_content, lines 231-257: wait_with_output()? returns once the child is
\* gone, with what the child wrote or with an error
Collect ==
    /\ pc = "collect"
    /\ child \in {"exited", "killed"}
    /\ \E src \in {o \in Outcomes(config) : o.kind \in {"output", "output_err"}} :
          /\ outcome' = src
          /\ returned' = read_content(config, src)
    /\ pc' = "returned"
    /\ op' = "collect"
    /\ UNCHANGED <<child, start_time, now>>
    /\ UNCHANGED waitFrame

WaitNext == Spawn \/ ChildExits \/ TryWait \/ Collect

SpecWait == WaitInit /\ [][WaitNext]_vars

\* The thread of read_content runs on; nothing makes the child exit.
FairSpecWait ==
    SpecWait /\ WF_vars(Spawn) /\ WF_vars(TryWait) /\ WF_vars(Collect)

-----------------------------------------------------------------------------
(* The refresh schedule alone: should_update called at any instants *)

DueIntervals == {50, 100, 150}

\* How long the rest of an iteration of run may take between two calls.
DueDelays == {10, 50, 200}

DueInit ==
    /\ pc = "due"
    /\ config \in [interval : DueIntervals, source : {"file"}]
    /\ last_update = 0
    /\ now = 0
    /\ updates = 0
    /\ op = "new" /\ key = NoKey /\ ret = FALSE /\ frame = NoFrame
    /\ scroll_y = 0 /\ scroll_x = 0 /\ content = <<>>
    /\ poll_timeout = 0
    /\ term = [width |-> 0, height |-> 0]
    /\ outcome = NoSrc
    /\ tty = "raw"
    /\ UnitIdle

dueFrame == <<pc, config, scroll_y, scroll_x, content, term, poll_timeout, key, frame,
              outcome, tty>>

\* run, line 580: self.state.should_update(self.config.interval)
DueCheck ==
    /\ pc = "due"
    /\ LET r == should_update(last_update, config.interval, now)
       IN /\ last_update' = r.last_update
          /\ ret' = r.due
          /\ updates' = IF r.due THEN updates + 1 ELSE updates
    /\ op' = "should_update"
    /\ UNCHANGED now
    /\ UNCHANGED dueFrame
    /\ UNCHANGED unitVars

\* run, lines 581-629: the rest of the iteration takes d
Elapse ==
    /\ pc = "due"
    /\ \E d \in DueDelays : now + d <= MaxTime /\ now' = now + d
    /\ op' = "elapse"
    /\ ret' = FALSE
    /\ UNCHANGED <<last_update, updates>>
    /\ UNCHANGED dueFrame
    /\ UNCHANGED unitVars

SpecDue == DueInit /\ [][DueCheck \/ Elapse]_vars

-----------------------------------------------------------------------------
(* The bounds of section 3 of the specification, as mathematical values *)

Widest(c) == IF c = <<>> THEN 0 ELSE SetMax({visual_width(c[i]) : i \in 1..Len(c)})
BoundY(c, height) == Max(0, Len(c) - height)
BoundX(c, width) == Max(0, Widest(c) - width)

InBounds(c, width, height) ==
    scroll_y <= BoundY(c, height) /\ scroll_x <= BoundX(c, width)

-----------------------------------------------------------------------------
(* Claims *)

MaxSide == 6            \* the largest terminal width and height compared

\* C1: whenever the viewport is rendered, scroll_y <= max(0, lines - height)
\* and scroll_x <= max(0, widest line - width), for the content and the
\* content area of that rendering.
C1_BoundsAtRender ==
    op = "draw" => InBounds(content, frame.width, frame.height)


\* C2: the reference instant is the start plus one interval per true return
\* of should_update, however late the checks are made; a false return leaves
\* it unchanged, and it only ever moves by exactly one interval.
C2_NoDrift ==
    /\ [](last_update = updates * config.interval)
    /\ [][(op' = "should_update" /\ ~ret') => last_update' = last_update]_vars
    /\ [][last_update' # last_update
            => (op' = "should_update" /\ ret'
                /\ last_update' = last_update + config.interval)]_vars

\* should_update has returned true for the second time on a check made late
C2_Witness ==
    op = "should_update" /\ ret /\ updates = 2 /\ now > last_update

\* C3: a refresh whose content equals the stored content changes neither the
\* content nor the offsets.
C3_IdenticalRefreshNoOp ==
    [][op' = "refresh_same"
         => (content' = content /\ scroll_y' = scroll_y /\ scroll_x' = scroll_x)]_vars

\* an identical refresh has been applied while an offset exceeds the bound for
\* the window passed in
C3_Witness ==
    /\ op = "refresh_same"
    /\ ~InBounds(content, term.width, run_content_height(term))

\* C4: the poll timeout is min(cap, max(0, interval - (now - reference))).
C4_PollTimeoutFormula ==
    op = "timeout"
      => poll_timeout = Min(POLL_CAP, Max(0, config.interval - (now - last_update)))

\* The dimensions and the window of the key handled under SpecKeys.
KeyHeight == run_content_height(term)
KeyBoundY == Max(0, dims.len - KeyHeight)
KeyBoundX == Max(0, SetMax(dims.widths) - term.width)

\* C5: each navigation key moves its offset as stated, saturating at 0 and at
\* the mathematical bound of the content and window.
C5_KeySemantics ==
    [][(op' = "key" /\ key'.kind = "Press") =>
         LET code == key'.code
             ctrl == key'.ctrl
         IN /\ code = "Down" => scroll_y' = Min(scroll_y + 1, KeyBoundY)
            /\ code = "Up" => scroll_y' = Max(0, scroll_y - 1)
            /\ code = "PageDown" => scroll_y' = Min(scroll_y + KeyHeight, KeyBoundY)
            /\ code = "PageUp" => scroll_y' = Max(0, scroll_y - KeyHeight)
            /\ code = "Right" => scroll_x' = Min(scroll_x + 1, KeyBoundX)
            /\ code = "Left" => scroll_x' = Max(0, scroll_x - 1)
            /\ (code = "Home" /\ ~ctrl) => scroll_x' = 0
            /\ (code = "End" /\ ~ctrl) => scroll_x' = KeyBoundX
            /\ (code = "Home" /\ ctrl) => scroll_y' = 0
            /\ (code = "End" /\ ctrl) => scroll_y' = KeyBoundY]_vars

\* C6: handle_key_event returns true exactly for a pressed navigation key,
\* saturated or not, and a false return leaves both offsets unchanged.
C6_ReturnValue ==
    /\ [](op = "key" => (ret <=> (key.kind = "Press" /\ key.code \in NavCodes)))
    /\ [][(op' = "key" /\ ~ret') => (scroll_y' = scroll_y /\ scroll_x' = scroll_x)]_vars

\* Down has been pressed on a one-line content, where the offset cannot move
C6_Witness ==
    /\ op = "key" /\ ret
    /\ key.code = "Down" /\ key.kind = "Press"
    /\ dims.len = 1 /\ scroll_y = 0

\* C7: the text drawn is the placeholder exactly when scroll_y >= len(content),
\* and otherwise the lines from scroll_y to min(scroll_y + height, len), each
\* cropped at scroll_x.
C7_VisibleText ==
    op = "draw" =>
      frame.text =
        IF scroll_y >= Len(content) THEN <<PlaceholderLine>>
        ELSE [i \in 1..(Min(scroll_y + frame.height, Len(content)) - scroll_y) |->
                 crop_line_for_scroll(content[scroll_y + i], scroll_x)]

\* the placeholder has been drawn over a content that is not empty
C7_Witness ==
    /\ op = "draw"
    /\ content # <<>> /\ scroll_y >= Len(content)
    /\ frame.text = <<PlaceholderLine>>

\* C8: right after a failed refresh the offsets are within the bounds of the
\* fallback content and the current window.
C8_FailedRefreshReclamps ==
    op = "refresh_err" => InBounds(content, term.width, run_content_height(term))

NoEscape(l) == \A i \in 1..Len(l) : l[i] # ESC

LastChars(l, n) == SubSeq(l, Len(l) - n + 1, Len(l))

\* C9 as stated: on a line of N characters without escapes the visual width is
\* N and cropping at k <= N gives the last N-k characters, k = N included.
C9_CropPlain ==
    (pc = "cropped" /\ NoEscape(line) /\ column <= Len(line))
      => /\ visual_width(line) = Len(line)
         /\ cropped = LastChars(line, Len(line) - column)

\* C9 as amended: the same for k < N; for k = N > 0 the result is one space.
C9_CropPlainAmended ==
    (pc = "cropped" /\ NoEscape(line) /\ column <= Len(line))
      => /\ visual_width(line) = Len(line)
         /\ cropped = IF column = Len(line) /\ column > 0 THEN <<" ">>
                      ELSE LastChars(line, Len(line) - column)

\* a plain line has been cropped at its full width
C9_Witness ==
    /\ pc = "cropped" /\ NoEscape(line)
    /\ Len(line) = 3 /\ column = Len(line) /\ cropped = <<" ">>

\* C10 as stated: cropping at a column at or past the visual width gives a
\* result of visual width 0.
C10_CropPastEnd ==
    (pc = "cropped" /\ column >= visual_width(line)) => visual_width(cropped) = 0

\* C10 as amended: the result has visual width 0, except that a non-empty line
\* without any escape character cropped at a column > 0 gives the single space.
C10_CropPastEndAmended ==
    (pc = "cropped" /\ column >= visual_width(line))
      => IF column > 0 /\ line # <<>> /\ NoEscape(line)
         THEN cropped = <<" ">>
         ELSE visual_width(cropped) = 0

\* a line ending in an open escape run has been cropped past its visual width
C10_Witness ==
    /\ pc = "cropped"
    /\ line = <<"a", ESC, "b">>
    /\ column = 2
    /\ cropped = <<ESC, "b">>

\* Position i of line l belongs to an escape run: it holds the escape character,
\* or an escape character before it has not been closed by an m yet.
InRun(l, i) ==
    \/ l[i] = ESC
    \/ \E j \in 1..(i - 1) : l[j] = ESC /\ \A k \in (j + 1)..(i - 1) : l[k] # "m"

\* How many characters outside escape runs come before position i.
VisualIndex(l, i) == Cardinality({k \in 1..(i - 1) : ~InRun(l, k)})

\* The characters of l at the positions P, in their order in l.
Pick(l, P) ==
    [n \in 1..Cardinality(P) |->
        l[CHOOSE i \in P : Cardinality({j \in P : j < i}) = n - 1]]

\* Every character of an escape run, and the other characters of visual index
\* at least col.
Kept(l, col) ==
    Pick(l, {i \in 1..Len(l) : InRun(l, i) \/ VisualIndex(l, i) >= col})

\* C11 as stated: for a column > 0 the result is the line's escape runs, whole
\* and in place, and exactly the other characters of visual index >= column;
\* so below the visual width the result's width is the width less the column.
C11_CropKeepsRuns ==
    (pc = "cropped" /\ column > 0)
      => /\ cropped = Kept(line, column)
         /\ column < visual_width(line)
              => visual_width(cropped) = visual_width(line) - column

\* C11 as amended: the same, except that a line which is not empty and of
\* which nothing is kept gives the single space.
C11_CropKeepsRunsAmended ==
    (pc = "cropped" /\ column > 0)
      => /\ cropped = IF Kept(line, column) = <<>> /\ line # <<>> THEN <<" ">>
                      ELSE Kept(line, column)
         /\ column < visual_width(line)
              => visual_width(cropped) = visual_width(line) - column

\* a line whose escape run ends before the crop point has been cropped
C11_Witness ==
    /\ pc = "cropped"
    /\ line = <<ESC, "m", "a", "b">>
    /\ column = 1
    /\ cropped = <<ESC, "m", "b">>

\* The lines of a source text that hold something else than spaces.
Visible(raw) == SelectSeq(raw, LAMBDA l : \E i \in 1..Len(l) : l[i] # " ")

RedPair(l) == <<ESC, "[", "3", "1", "m">> \o l \o <<ESC, "[", "0", "m">>

\* C12: a successful read returns at least one line and no blank line; for a
\* command it returns the non-blank lines of the standard output, then those of
\* the standard error, each between the red escape pair, or exactly one line
\* when there is none; for a file its non-blank lines, or exactly one line.
C12_ReadResult ==
    (pc = "returned" /\ returned.ok) =>
      LET lines == returned.lines IN
      /\ lines # <<>>
      /\ \A i \in 1..Len(lines) : \E j \in 1..Len(lines[i]) : lines[i][j] # " "
      /\ outcome.kind = "output" =>
           LET out == Visible(outcome.stdout)
               err == Visible(outcome.stderr)
           IN IF out = <<>> /\ err = <<>> THEN Len(lines) = 1
              ELSE /\ Len(lines) = Len(out) + Len(err)
                   /\ \A i \in 1..Len(out) : lines[i] = out[i]
                   /\ \A i \in 1..Len(err) : lines[Len(out) + i] = RedPair(err[i])
      /\ outcome.kind = "file" =>
           IF Visible(outcome.raw) = <<>> THEN Len(lines) = 1
           ELSE lines = Visible(outcome.raw)

\* a command has written blank and non-blank lines to both streams
C12_Witness ==
    /\ pc = "returned" /\ returned.ok
    /\ outcome.kind = "output"
    /\ outcome.stdout = <<<<" ">>, <<"a">>>>
    /\ outcome.stderr = <<<<"b", "b">>, <<>>>>
    /\ returned.lines = <<<<"a">>, <<ESC, "[", "3", "1", "m", "b", "b", ESC, "[", "0", "m">>>>

QuitKey(k) == k.code = "q" \/ (k.code = "c" /\ k.ctrl)

\* C13: a pressed q or Ctrl+C read by the loop ends the loop in that iteration
\* with the offsets and the content untouched, and is never handled as
\* navigation; no other key ends the loop; after the loop the program only
\* restores the terminal, and with that done it returns success.
C13_Quit ==
    /\ [][(pc = "poll" /\ key' # NoKey /\ QuitKey(key'))
            => (op' = "quit" /\ pc' = "exited" /\ scroll_y' = scroll_y
                /\ scroll_x' = scroll_x /\ content' = content)]_vars
    /\ [][(pc # "exited" /\ pc' = "exited") => (op' = "quit" /\ QuitKey(key'))]_vars
    /\ [][(op' = "key" /\ ~QuitKey(key')) => pc' = "loop"]_vars
    /\ [][pc = "exited" => op' \in {"cleanup", "cleanup_error"}]_vars
    /\ [][op' = "cleanup" => (pc' = "done" /\ tty' = "restored")]_vars
    /\ [](pc = "done" => tty = "restored")

\* Ctrl+C has ended the loop with the view scrolled down, and main has returned
C13_Witness ==
    /\ pc = "done" /\ tty = "restored"
    /\ key.code = "c" /\ key.ctrl /\ key.kind = "Press"
    /\ scroll_y > 0

\* min(3s, max(100ms, 0.8 * interval)), in milliseconds
WaitLimit(interval) == Min(3000, Max(100, (8 * interval) \div 10))

\* C14: the wait loop always ends, for a child that never exits too: it is
\* left with the child seen exited or killed, the child is killed only once
\* the time elapsed exceeds min(3s, max(100ms, 0.8 * interval)), the loop does
\* not go round again after that, and the read returns.
C14_WaitLoopEnds ==
    /\ (pc = "try_wait") ~> (pc # "try_wait")
    /\ (pc = "spawn") ~> (pc = "returned")
    /\ [][(pc = "try_wait" /\ pc' = "collect") => child' \in {"exited", "killed"}]_vars
    /\ [][(child # "killed" /\ child' = "killed")
            => (now - start_time > WaitLimit(config.interval) /\ pc' = "collect")]_vars
    /\ [][(pc = "try_wait" /\ pc' = "try_wait" /\ now' # now)
            => now - start_time <= WaitLimit(config.interval)]_vars

\* a child that never exited has been killed after the cap of 3 s, and the
\* read has returned
C14_Witness ==
    /\ pc = "returned" /\ returned.ok
    /\ child = "killed"
    /\ config.interval = 4000
    /\ now - start_time > 3000

\* The rows of the frame drawn last that hold the status line, the separator
\* and the content.
StatusRows == IF frame.status THEN 0..(STATUS_HEIGHT - 1) ELSE {}
SeparatorRows ==
    IF frame.separator THEN STATUS_HEIGHT..(STATUS_HEIGHT + SEPARATOR_HEIGHT - 1) ELSE {}
ContentRows == frame.content_y..(frame.content_y + frame.height - 1)

\* C15: with 3 rows or more the status line, the separator and the content are
\* drawn on disjoint rows; with 2 rows the status line and the content, without
\* the separator; with fewer than 2 rows the content alone; the content area
\* has at least 1 row.
C15_LayoutDegrades ==
    op = "draw" =>
      /\ frame.height >= 1
      /\ StatusRows \cap ContentRows = {}
      /\ SeparatorRows \cap ContentRows = {}
      /\ StatusRows \cap SeparatorRows = {}
      /\ term.height >= 3 => (frame.status /\ frame.separator)
      /\ term.height = 2 => (frame.status /\ ~frame.separator)
      /\ term.height < 2 => (~frame.status /\ ~frame.separator)

SourceFailed(o) == o.kind \in {"open_err", "spawn_err", "wait_err", "output_err"}

\* C16: a read that fails during a scheduled refresh leaves the loop running
\* with a content of one fallback line and does not touch the schedule: the
\* reference instant stays at a whole number of intervals from the start, and
\* every later check returns true exactly when an interval has elapsed since it.
C16_SourceFailure ==
    /\ [][(pc = "read" /\ outcome' # NoSrc /\ SourceFailed(outcome'))
            => /\ pc' = "draw"
               /\ content' \in {<<ReadFailLine>>, <<WaitFailLine>>}
               /\ last_update' = last_update
               /\ updates' = updates]_vars
    /\ [][op' = "should_update"
            => /\ ret' <=> (now - last_update >= config.interval)
               /\ ret' => pc' = "read"]_vars
    /\ [](pc = "read" => last_update = updates * config.interval)

\* the second scheduled refresh has failed in try_wait and the loop goes on
C16_Witness ==
    /\ pc = "draw"
    /\ outcome.kind = "wait_err"
    /\ content = <<WaitFailLine>>
    /\ updates = 2

\* C17: after update_content with a content that differs, each offset is at
\* most the mathematical bound of the new content and the window passed in,
\* and is either unchanged or lowered to exactly that bound.
C17_UpdateReclamps ==
    [][op' = "update" =>
         LET bound_y == Max(0, dims'.len - KeyHeight)
             bound_x == Max(0, SetMax(dims'.widths) - term.width)
         IN /\ scroll_y' <= bound_y
            /\ scroll_x' <= bound_x
            /\ scroll_y' = scroll_y \/ (scroll_y' < scroll_y /\ scroll_y' = bound_y)
            /\ scroll_x' = scroll_x \/ (scroll_x' < scroll_x /\ scroll_x' = bound_x)]_vars

VerticalKey(k) ==
    k.code \in {"Up", "Down", "PageUp", "PageDown"} \/ (k.code \in {"Home", "End"} /\ k.ctrl)

HorizontalKey(k) ==
    k.code \in {"Left", "Right"} \/ (k.code \in {"Home", "End"} /\ ~k.ctrl)

\* C18: handling a key changes neither the content nor the reference instant;
\* a vertical command leaves scroll_x unchanged and a horizontal one scroll_y;
\* should_update leaves the content and both offsets unchanged.
C18_FrameEffects ==
    /\ [][op' = "key" => (content' = content /\ last_update' = last_update)]_vars
    /\ [][(op' = "key" /\ VerticalKey(key')) => scroll_x' = scroll_x]_vars
    /\ [][(op' = "key" /\ HorizontalKey(key')) => scroll_y' = scroll_y]_vars
    /\ [][op' = "should_update"
            => (content' = content /\ scroll_y' = scroll_y /\ scroll_x' = scroll_x
                /\ config' = config)]_vars

\* Ctrl+End has been pressed with the view scrolled to the right
C18_Witness ==
    /\ op = "key"
    /\ key.code = "End" /\ key.ctrl /\ key.kind = "Press"
    /\ scroll_y > 0 /\ scroll_x > 0

\* C19: the reference instant is never later than the clock; the k-th true
\* return of should_update comes no sooner than k intervals after the start;
\* should_update returns true exactly when an interval has elapsed since the
\* reference instant; a check that finds m intervals elapsed returns true and
\* leaves m - 1 intervals elapsed, and that is not undone between checks, so m
\* checks in a row return true.
C19_NoEarlyRefresh ==
    /\ [](last_update <= now)
    /\ [](updates * config.interval <= now)
    /\ [][op' = "should_update"
            => (ret' <=> now - last_update >= config.interval)]_vars
    /\ [][\A m \in 1..3 :
            (op' = "should_update" /\ now - last_update >= m * config.interval)
              => (ret' /\ now' - last_update' >= (m - 1) * config.interval)]_vars
    /\ [][op' # "should_update" => now' - last_update' >= now - last_update]_vars

\* should_update has returned true and two more intervals are still elapsed
C19_Witness ==
    /\ pc = "due" /\ op = "should_update" /\ ret
    /\ now - last_update >= 2 * config.interval

\* C20: the width and height that run derives from the terminal's size for
\* update_content and handle_key_event are the width and height of the content
\* area that render_ui draws into, for the terminal drawn on and for every
\* terminal size from 0x0 on.
C20_WindowAgreement ==
    op = "draw" =>
      /\ frame.width = term.width
      /\ frame.height = run_content_height(term)
      /\ \A size \in [width : 0..MaxSide, height : 0..MaxSide] :
            LET drawn == render_ui(size, state)
            IN drawn.width = size.width /\ drawn.height = run_content_height(size)

\* a terminal of 2 rows has been drawn on: the status line and 1 row of content
C20_Witness ==
    /\ op = "draw"
    /\ term.height = 2
    /\ frame.content_y = 1 /\ frame.height = 1
    /\ run_content_height(term) = 1

\* C21: the 16-bit scroll arithmetic neither wraps nor truncates: the sums
\* scroll_y + 1, scroll_y + height and scroll_x + 1 fit in 16 bits, no key
\* makes an addition overflow, and the bounds computed with the 16-bit casts
\* are max(0, len - height) and max(0, widest line - width), for contents of
\* any size.
C21_NoWrapNoTruncation ==
    /\ op # "panic"
    /\ pc = "keys" =>
         /\ scroll_y + 1 <= 65535
         /\ scroll_y + KeyHeight <= 65535
         /\ scroll_x + 1 <= 65535
         /\ max_scroll_y_of(dims.len, KeyHeight) = KeyBoundY
         /\ max_scroll_x_of(dims.widths, term.width) = KeyBoundX

====
